---------------------------- MODULE Spec2Model ----------------------------
(***************************************************************************)
(* A model of src/app.py: the AIAssistant analytics engine (inventory      *)
(* classification, sales aggregation, coupon classification, the two       *)
(* investment scorers, the reorder planner), its keyword query router and  *)
(* the process_query pipeline run by the threads of the Flask server on    *)
(* the one module-level assistant object.                                  *)
(*                                                                         *)
(* Python values are represented as follows.  A dict is a function with a  *)
(* string domain (a missing key is a key outside DOMAIN); a list is a      *)
(* sequence; a dict whose insertion order matters is a sequence of         *)
(* <<key, value>> pairs; a float is an exact rational <<num, den>>; a      *)
(* string that is searched for substrings is a sequence of one-character   *)
(* strings; a date string "Y-M-D" is the tuple <<Y, M, D>> and the empty   *)
(* string is the empty tuple.  A call that can raise returns either        *)
(* Ok(value) or Raise(exception type).                                     *)
(***************************************************************************)
EXTENDS Integers, Sequences, FiniteSets, TLC

----------------------------------------------------------------------------
(* Bounds of the model *)

\* longest inventory list in the Inventory Classifier's inputs
MaxProducts == 3
\* longest order-line list in the Sales Aggregator's inputs
MaxOrders == 4
\* longest inventory and order-line lists in the Investment Scorer's inputs
MaxScored == 1
MaxScoredOrders == 2
\* longest inventory and order-line lists in the Reorder Planner's inputs
MaxPlanned == 2
MaxPlannedOrders == 2
\* longest coupon list in the coupon inputs
MaxCoupons == 2
\* most words in a query text
MaxQueryWords == 2
\* most process_query calls one server thread makes
MaxCalls == 1

----------------------------------------------------------------------------
(* Python values *)

\* Python's None where it is used as a dict key or a field value
None == "None"

EmptyDict == [k \in {} |-> 0]

\* d.get(k, default)
Get(d, k, default) == IF k \in DOMAIN d THEN d[k] ELSE default

Ok(v) == [exc |-> "none", val |-> v]

Raise(e) == [exc |-> e]

Raised(r) == r.exc # "none"

Max(a, b) == IF a >= b THEN a ELSE b

Min(a, b) == IF a <= b THEN a ELSE b

Abs(a) == IF a < 0 THEN -a ELSE a

SeqsUpTo(S, n) == UNION {[1..k -> S] : k \in 0..n}

Range(s) == {s[i] : i \in DOMAIN s}

\* position of key k in the insertion-ordered dict d, 0 when absent
KeyIndex(d, k) ==
    IF \E i \in DOMAIN d : d[i][1] = k
    THEN CHOOSE i \in DOMAIN d : d[i][1] = k
    ELSE 0

\* k in d
HasKey(d, k) == KeyIndex(d, k) # 0

\* d[k] = v : a new key goes last, an existing key keeps its place
DictSet(d, k, v) ==
    IF HasKey(d, k)
    THEN [d EXCEPT ![KeyIndex(d, k)] = <<k, v>>]
    ELSE Append(d, <<k, v>>)

\* d.get(k, default) on an insertion-ordered dict
DictGet(d, k, default) == IF HasKey(d, k) THEN d[KeyIndex(d, k)][2] ELSE default

DictKeys(d) == {d[i][1] : i \in DOMAIN d}

----------------------------------------------------------------------------
(* Thresholds *)

REORDER_THRESHOLD == 20

OVERSTOCK_THRESHOLD == 50

HIGH_VALUE_THRESHOLD == 20

----------------------------------------------------------------------------
(* The upstream payloads *)

InventoryPayload(ps) ==
    [PMAI006OperationResponse |-> [ws_invent_recout |-> [ws_invent_res |-> ps]]]

OrdersPayload(os) ==
    [PMAI009OperationResponse |-> [ws_order_recout |-> [ws_order_res |-> os]]]

CouponsPayload(cs) ==
    [PMAI016OperationResponse |-> [ws_coupon_recout |-> [ws_coupon_res |-> cs]]]

\* the product list of an inventory payload
_get_products(inventory) ==
    Get(Get(Get(inventory, "PMAI006OperationResponse", EmptyDict),
            "ws_invent_recout", EmptyDict),
        "ws_invent_res", <<>>)

\* the order-line list of an orders payload
OrdersOf(orders) ==
    Get(Get(Get(orders, "PMAI009OperationResponse", EmptyDict),
            "ws_order_recout", EmptyDict),
        "ws_order_res", <<>>)

\* the coupon list of a coupons payload
CouponsOf(coupons) ==
    Get(Get(Get(coupons, "PMAI016OperationResponse", EmptyDict),
            "ws_coupon_recout", EmptyDict),
        "ws_coupon_res", <<>>)

----------------------------------------------------------------------------
(* Inventory Classifier *)

HealthInfo(product) ==
    [id    |-> Get(product, "ws_item_id", None),
     name  |-> Get(product, "ws_item_name", None),
     stock |-> Get(product, "ws_stock", 0),
     price |-> Get(product, "ws_unit_price", 0)]

\* a mutation of HealthBucket: the low-stock cutoff taken exclusive
HealthBucketExclusive(stock) ==
    IF stock < REORDER_THRESHOLD THEN "low_stock"
    ELSE IF stock > OVERSTOCK_THRESHOLD THEN "overstock"
    ELSE "healthy_stock"

\* the list a product of this stock is appended to
HealthBucket(stock) ==
    IF stock <= REORDER_THRESHOLD THEN "low_stock"
    ELSE IF stock > OVERSTOCK_THRESHOLD THEN "overstock"
    ELSE "healthy_stock"

RECURSIVE HealthLoop(_, _)
HealthLoop(products, inventory_health) ==
    IF products = <<>> THEN inventory_health
    ELSE LET product_info == HealthInfo(Head(products))
             bucket == HealthBucket(product_info.stock)
         IN  HealthLoop(Tail(products),
                        [inventory_health EXCEPT ![bucket] = Append(@, product_info)])

_analyze_inventory_health(inventory) ==
    HealthLoop(_get_products(inventory),
               [low_stock |-> <<>>, healthy_stock |-> <<>>, overstock |-> <<>>])

----------------------------------------------------------------------------
(* Sales Aggregator *)

\* a mutation of SalesAdd: the revenue of a line taken as its unit price
SalesAddPriceOnly(product_sales, order) ==
    LET prod_id == Get(order, "ws_item_id", None)
        entry == DictGet(product_sales, prod_id,
                         [quantity |-> 0, revenue |-> 0,
                          product_name |-> Get(order, "ws_item_name", None)])
        quantity == Get(order, "ws_quantity", 0)
        price == Get(order, "ws_unit_price", 0)
    IN  DictSet(product_sales, prod_id,
                [entry EXCEPT !.quantity = @ + quantity, !.revenue = @ + price])

\* one iteration of the loop over the order lines
SalesAdd(product_sales, order) ==
    LET prod_id == Get(order, "ws_item_id", None)
        entry == DictGet(product_sales, prod_id,
                         [quantity |-> 0, revenue |-> 0,
                          product_name |-> Get(order, "ws_item_name", None)])
        quantity == Get(order, "ws_quantity", 0)
        price == Get(order, "ws_unit_price", 0)
    IN  DictSet(product_sales, prod_id,
                [entry EXCEPT !.quantity = @ + quantity,
                              !.revenue = @ + quantity * price])

RECURSIVE SalesLoop(_, _)
SalesLoop(orders, product_sales) ==
    IF orders = <<>> THEN product_sales
    ELSE SalesLoop(Tail(orders), SalesAdd(product_sales, Head(orders)))

\* a mutation of InsertByQuantity: item goes before the items of its quantity
RECURSIVE InsertByQuantityUnstable(_, _)
InsertByQuantityUnstable(sorted, item) ==
    IF sorted = <<>> THEN <<item>>
    ELSE IF Head(sorted)[2].quantity > item[2].quantity
         THEN <<Head(sorted)>> \o InsertByQuantityUnstable(Tail(sorted), item)
         ELSE <<item>> \o sorted

\* item goes after every item whose quantity is at least its own
RECURSIVE InsertByQuantity(_, _)
InsertByQuantity(sorted, item) ==
    IF sorted = <<>> THEN <<item>>
    ELSE IF Head(sorted)[2].quantity >= item[2].quantity
         THEN <<Head(sorted)>> \o InsertByQuantity(Tail(sorted), item)
         ELSE <<item>> \o sorted

\* sorted(items, key=quantity, reverse=True): descending and stable
RECURSIVE SortedByQuantity(_)
SortedByQuantity(items) ==
    IF items = <<>> THEN <<>>
    ELSE InsertByQuantity(SortedByQuantity(SubSeq(items, 1, Len(items) - 1)),
                          items[Len(items)])

_analyze_sales_trends(orders_payload) ==
    LET orders == OrdersOf(orders_payload)
        product_sales == SalesLoop(orders, <<>>)
        popular_products == SortedByQuantity(product_sales)
    IN  [total_orders     |-> Len(orders),
         product_sales    |-> product_sales,
         popular_products |-> SubSeq(popular_products, 1,
                                     Min(3, Len(popular_products)))]

----------------------------------------------------------------------------
(* Coupon Classifier *)

IsLeap(y) == (y % 4 = 0 /\ y % 100 # 0) \/ y % 400 = 0

DaysInMonth(y, m) ==
    IF m = 2 THEN (IF IsLeap(y) THEN 29 ELSE 28)
    ELSE IF m \in {4, 6, 9, 11} THEN 30 ELSE 31

\* datetime.strptime(s, '%Y-%m-%d').date()
Strptime(s) ==
    IF /\ Len(s) = 3
       /\ s[1] \in 1..9999
       /\ s[2] \in 1..12
       /\ s[3] \in 1..DaysInMonth(s[1], s[2])
    THEN Ok([year |-> s[1], month |-> s[2], day |-> s[3]])
    ELSE Raise("ValueError")

\* date.strftime('%Y-%m-%d')
Strftime(date) == <<date.year, date.month, date.day>>

\* a mutation of DateLE: the comparison taken strict
DateLT(a, b) ==
    \/ a.year < b.year
    \/ a.year = b.year /\ a.month < b.month
    \/ a.year = b.year /\ a.month = b.month /\ a.day < b.day

\* a <= b on dates
DateLE(a, b) ==
    \/ a.year < b.year
    \/ a.year = b.year /\ a.month < b.month
    \/ a.year = b.year /\ a.month = b.month /\ a.day <= b.day

\* a mutation of CouponStep: a coupon with a bad date is skipped
CouponStepSkipping(analysis, coupon, current_date) ==
    LET start_date == Strptime(Get(coupon, "ws_start_date", <<>>))
        end_date == Strptime(Get(coupon, "ws_end_date", <<>>))
    IN  IF Raised(analysis) \/ Raised(start_date) \/ Raised(end_date)
        THEN analysis
        ELSE LET offer_percent == Get(coupon, "ws_offer_percent", 0)
                 coupon_info ==
                     [code       |-> Get(coupon, "ws_coupon_code", None),
                      discount   |-> offer_percent,
                      campaign   |-> Get(coupon, "ws_campaigns_name", None),
                      start_date |-> Strftime(start_date.val),
                      end_date   |-> Strftime(end_date.val)]
                 dated == IF DateLE(current_date, end_date.val)
                          THEN [analysis.val EXCEPT
                                   !.active_coupons = Append(@, coupon_info)]
                          ELSE [analysis.val EXCEPT
                                   !.expired_coupons = Append(@, coupon_info)]
             IN  Ok(IF offer_percent > HIGH_VALUE_THRESHOLD
                    THEN [dated EXCEPT !.high_value_coupons = Append(@, coupon_info)]
                    ELSE dated)

\* one iteration of the loop over the coupons
CouponStep(analysis, coupon, current_date) ==
    LET start_date == Strptime(Get(coupon, "ws_start_date", <<>>))
        end_date == Strptime(Get(coupon, "ws_end_date", <<>>))
    IN  IF Raised(analysis) THEN analysis
        ELSE IF Raised(start_date) THEN start_date
        ELSE IF Raised(end_date) THEN end_date
        ELSE LET offer_percent == Get(coupon, "ws_offer_percent", 0)
                 coupon_info ==
                     [code       |-> Get(coupon, "ws_coupon_code", None),
                      discount   |-> offer_percent,
                      campaign   |-> Get(coupon, "ws_campaigns_name", None),
                      start_date |-> Strftime(start_date.val),
                      end_date   |-> Strftime(end_date.val)]
                 dated == IF DateLE(current_date, end_date.val)
                          THEN [analysis.val EXCEPT
                                   !.active_coupons = Append(@, coupon_info)]
                          ELSE [analysis.val EXCEPT
                                   !.expired_coupons = Append(@, coupon_info)]
             IN  Ok(IF offer_percent > HIGH_VALUE_THRESHOLD
                    THEN [dated EXCEPT !.high_value_coupons = Append(@, coupon_info)]
                    ELSE dated)

RECURSIVE CouponLoop(_, _, _)
CouponLoop(coupons, analysis, current_date) ==
    IF coupons = <<>> THEN analysis
    ELSE CouponLoop(Tail(coupons),
                    CouponStep(analysis, Head(coupons), current_date),
                    current_date)

_analyze_coupon_effectiveness(coupons_payload, current_date) ==
    CouponLoop(CouponsOf(coupons_payload),
               Ok([active_coupons |-> <<>>, expired_coupons |-> <<>>,
                   high_value_coupons |-> <<>>]),
               current_date)

----------------------------------------------------------------------------
(* Floats, as exact rationals <<numerator, denominator>>, denominator > 0 *)

RECURSIVE GCD(_, _)
GCD(a, b) == IF b = 0 THEN a ELSE GCD(b, a % b)

\* the rational n/d in lowest terms, d # 0
Frac(n, d) ==
    LET g == GCD(Abs(n), Abs(d))
        s == IF d < 0 THEN -1 ELSE 1
    IN  <<(s * n) \div g, (s * d) \div g>>

Float(n) == <<n, 1>>

RAdd(a, b) == Frac(a[1] * b[2] + b[1] * a[2], a[2] * b[2])

RSub(a, b) == Frac(a[1] * b[2] - b[1] * a[2], a[2] * b[2])

RMul(a, b) == Frac(a[1] * b[1], a[2] * b[2])

\* a / b, b # 0
RDiv(a, b) == Frac(a[1] * b[2], a[2] * b[1])

\* a mutation of RLe: the comparison is strict
RLeStrict(a, b) == a[1] * b[2] < b[1] * a[2]

RLe(a, b) == a[1] * b[2] <= b[1] * a[2]

RLt(a, b) == a[1] * b[2] < b[1] * a[2]

RMin(a, b) == IF RLe(a, b) THEN a ELSE b

RMax(a, b) == IF RLe(b, a) THEN a ELSE b

RAbs(a) == <<Abs(a[1]), a[2]>>

IsZero(a) == a[1] = 0

\* float('inf')
Infinity == <<1, 0>>

\* a mutation of TruncToInt: the nearest integer, halves to the even one
RoundToInt(a) ==
    LET f == a[1] \div a[2]
        r == 2 * (a[1] % a[2])
    IN  IF r < a[2] THEN f
        ELSE IF r > a[2] THEN f + 1
        ELSE IF f % 2 = 0 THEN f ELSE f + 1

\* int(x) of a float: truncation toward zero
TruncToInt(a) ==
    IF a[1] >= 0 THEN a[1] \div a[2] ELSE -((-a[1]) \div a[2])

----------------------------------------------------------------------------
(* Investment Scorer, Variant A *)

NoSales == [quantity |-> 0, revenue |-> 0]

RECURSIVE SumRevenue(_)
SumRevenue(product_sales) ==
    IF product_sales = <<>> THEN 0
    ELSE Head(product_sales)[2].revenue + SumRevenue(Tail(product_sales))

\* the margin points: capped at 25, not floored
MarginScore(margin) == RMin(margin, Float(25))

EfficiencyScore(efficiency) == RMax(Float(0), efficiency)

_calculate_investment_score(product, sales_data) ==
    IF {"ws_item_id", "ws_stock", "ws_unit_price"} \ DOMAIN product # {}
    THEN Raise("KeyError")
    ELSE
    LET product_sales == DictGet(sales_data.product_sales, product.ws_item_id, NoSales)
        stock_level == Float(product.ws_stock)
        unit_price == Float(product.ws_unit_price)
        cost_price == Float(Get(product, "ws_cost_price", 0))
        sales_velocity == Frac(product_sales.quantity, 30)
        velocity_score == RMin(RMul(sales_velocity, Float(10)), Float(30))
        ideal_stock == RMul(sales_velocity, Float(14))
        total_revenue == SumRevenue(sales_data.product_sales)
    IN  IF IsZero(unit_price) THEN Raise("ZeroDivisionError")
        ELSE IF IsZero(ideal_stock) THEN Raise("ZeroDivisionError")
        ELSE
        LET margin == RMul(RDiv(RSub(unit_price, cost_price), unit_price), Float(100))
            margin_score == MarginScore(margin)
            efficiency ==
                RMul(Float(25),
                     RSub(Float(1), RDiv(RAbs(RSub(stock_level, ideal_stock)), ideal_stock)))
            efficiency_score == EfficiencyScore(efficiency)
            revenue_share ==
                IF total_revenue > 0
                THEN RMul(Frac(product_sales.revenue, total_revenue), Float(100))
                ELSE Float(0)
            revenue_score == RMin(RMul(revenue_share, Float(2)), Float(20))
        IN  Ok(RAdd(RAdd(velocity_score, margin_score),
                    RAdd(efficiency_score, revenue_score)))

\* item goes after every item whose score is at least its own
RECURSIVE InsertByScore(_, _)
InsertByScore(sorted, item) ==
    IF sorted = <<>> THEN <<item>>
    ELSE IF RLe(item[2], Head(sorted)[2])
         THEN <<Head(sorted)>> \o InsertByScore(Tail(sorted), item)
         ELSE <<item>> \o sorted

\* sorted(items, key=score, reverse=True): descending and stable
RECURSIVE SortedByScore(_)
SortedByScore(items) ==
    IF items = <<>> THEN <<>>
    ELSE InsertByScore(SortedByScore(SubSeq(items, 1, Len(items) - 1)),
                       items[Len(items)])

\* the loop scoring every product; the first exception ends it
RECURSIVE ScoreLoop(_, _, _)
ScoreLoop(products, sales_data, product_scores) ==
    IF products = <<>> THEN Ok(product_scores)
    ELSE LET score == _calculate_investment_score(Head(products), sales_data)
         IN  IF Raised(score) THEN score
             ELSE ScoreLoop(Tail(products), sales_data,
                            Append(product_scores, <<Head(products), score.val>>))

get_best_investment_recommendations(inventory, orders_payload) ==
    LET sales_data == _analyze_sales_trends(orders_payload)
        product_scores == ScoreLoop(_get_products(inventory), sales_data, <<>>)
    IN  IF Raised(product_scores) THEN product_scores
        ELSE LET ranked == SortedByScore(product_scores.val)
             IN  Ok(SubSeq(ranked, 1, Min(3, Len(ranked))))

----------------------------------------------------------------------------
(* Investment Scorer, Variant B *)

\* (unit_price - cost_price) / unit_price * 100
ProfitMargin(unit_price, cost_price) ==
    IF unit_price = 0 THEN Raise("ZeroDivisionError")
    ELSE Ok(RMul(Frac(unit_price - cost_price, unit_price), Float(100)))

PotentialOf(product, sales_data) ==
    LET product_id == Get(product, "ws_item_id", None)
        sales_info == DictGet(sales_data.product_sales, product_id, NoSales)
        current_stock == Get(product, "ws_stock", 0)
        unit_price == Get(product, "ws_unit_price", 0)
        profit_margin == ProfitMargin(unit_price, Get(product, "ws_cost_price", 0))
    IN  IF Raised(profit_margin) THEN profit_margin
        ELSE
        LET investment_score ==
                [sales_velocity |->
                     IF sales_info.quantity > 0 THEN Frac(sales_info.quantity, 30)
                     ELSE Float(0),
                 profit_margin |-> profit_margin.val,
                 stock_efficiency |->
                     RMin(Frac(current_stock, Max(sales_info.quantity, 1)), Float(1)),
                 revenue_contribution |->
                     RMul(Frac(sales_info.revenue,
                               Max(SumRevenue(sales_data.product_sales), 1)),
                          Float(100))]
            total_score ==
                RAdd(RAdd(RMul(investment_score.sales_velocity, Frac(35, 100)),
                          RMul(investment_score.profit_margin, Frac(25, 100))),
                     RAdd(RMul(investment_score.stock_efficiency, Frac(20, 100)),
                          RMul(investment_score.revenue_contribution, Frac(20, 100))))
            factors ==
                (IF RLt(Float(1), investment_score.sales_velocity)
                 THEN <<"High sales velocity">> ELSE <<>>)
                \o (IF RLt(Float(30), investment_score.profit_margin)
                    THEN <<"Strong profit margin">> ELSE <<>>)
                \o (IF RLt(Float(10), investment_score.revenue_contribution)
                    THEN <<"Significant revenue contributor">> ELSE <<>>)
        IN  Ok([product_info |-> product,
                metrics |-> investment_score,
                total_score |-> total_score,
                recommendation_factors |-> factors])

\* the loop over self.products; the first exception ends it
RECURSIVE PotentialLoop(_, _, _)
PotentialLoop(prods, sales_data, product_analysis) ==
    IF prods = <<>> THEN Ok(product_analysis)
    ELSE LET analysis == PotentialOf(Head(prods), sales_data)
         IN  IF Raised(analysis) THEN analysis
             ELSE PotentialLoop(Tail(prods), sales_data,
                                DictSet(product_analysis,
                                        Get(Head(prods), "ws_item_id", None),
                                        analysis.val))

_analyze_product_potential(prods, orders_payload) ==
    PotentialLoop(prods, _analyze_sales_trends(orders_payload), <<>>)

----------------------------------------------------------------------------
(* Reorder Planner *)

lead_time_days == 7

\* a mutation of UrgentQuantity: the computed quantity reported as it is
UrgentQuantityUnclamped(reorder_quantity, min_stock) == reorder_quantity

\* the quantity reported for an URGENT product
UrgentQuantity(reorder_quantity, min_stock) == Max(reorder_quantity, min_stock)

\* the quantity reported for a SOON product
SoonQuantity(reorder_quantity) == Max(reorder_quantity, 0)

\* a mutation of NeedsSuggestion: a quantity of 0 gets a suggestion too
NeedsSuggestionFromZero(reorder_quantity) == reorder_quantity >= 0

\* if reorder_quantity > 0
NeedsSuggestion(reorder_quantity) == reorder_quantity > 0

ReorderStep(reorder_analysis, product, sales_data) ==
    LET current_stock == Get(product, "ws_stock", 0)
        product_id == Get(product, "ws_item_id", None)
        min_stock == Get(product, "ws_min_stock", REORDER_THRESHOLD)
        product_sales == DictGet(sales_data.product_sales, product_id, EmptyDict)
        sales_quantity == Get(product_sales, "quantity", 0)
        avg_daily_sales == IF sales_quantity > 0 THEN Frac(sales_quantity, 30) ELSE Float(0)
        days_remaining == IF IsZero(avg_daily_sales) THEN Infinity
                          ELSE RDiv(Float(current_stock), avg_daily_sales)
        product_info ==
            [id |-> product_id,
             name |-> Get(product, "ws_item_name", None),
             current_stock |-> current_stock,
             min_stock |-> min_stock,
             avg_daily_sales |-> avg_daily_sales,
             days_remaining |-> days_remaining,
             unit_price |-> Get(product, "ws_unit_price", 0)]
        safety_stock == RMul(Float(min_stock), Frac(1, 2))
        reorder_quantity ==
            TruncToInt(RSub(RAdd(RMul(avg_daily_sales, Float(lead_time_days)), safety_stock),
                            Float(current_stock)))
        tiered ==
            IF current_stock <= min_stock
            THEN [reorder_analysis EXCEPT !.urgent_reorder =
                     Append(@, product_info @@
                               [urgency |-> "URGENT",
                                reorder_quantity |->
                                    UrgentQuantity(reorder_quantity, min_stock)])]
            ELSE IF RLe(Float(current_stock), RMul(Float(min_stock), Frac(3, 2)))
            THEN [reorder_analysis EXCEPT !.approaching_reorder =
                     Append(@, product_info @@
                               [urgency |-> "SOON",
                                reorder_quantity |-> SoonQuantity(reorder_quantity)])]
            ELSE reorder_analysis
    IN  IF NeedsSuggestion(reorder_quantity)
        THEN [tiered EXCEPT !.reorder_suggestions =
                 DictSet(@, product_id,
                         [quantity |-> reorder_quantity,
                          avg_daily_sales |-> avg_daily_sales,
                          lead_time_days |-> lead_time_days])]
        ELSE tiered

RECURSIVE ReorderLoop(_, _, _)
ReorderLoop(products, sales_data, reorder_analysis) ==
    IF products = <<>> THEN reorder_analysis
    ELSE ReorderLoop(Tail(products), sales_data,
                     ReorderStep(reorder_analysis, Head(products), sales_data))

_check_reorder_levels(inventory, orders_payload) ==
    ReorderLoop(_get_products(inventory), _analyze_sales_trends(orders_payload),
                [urgent_reorder |-> <<>>, approaching_reorder |-> <<>>,
                 reorder_suggestions |-> <<>>])

----------------------------------------------------------------------------
(* Query texts: sequences of characters *)

UpperCase == <<"A", "B", "C", "D", "E", "F", "G", "H", "I", "J", "K", "L", "M",
               "N", "O", "P", "Q", "R", "S", "T", "U", "V", "W", "X", "Y", "Z">>

LowerCase == <<"a", "b", "c", "d", "e", "f", "g", "h", "i", "j", "k", "l", "m",
               "n", "o", "p", "q", "r", "s", "t", "u", "v", "w", "x", "y", "z">>

LowerChar(c) ==
    IF \E i \in DOMAIN UpperCase : UpperCase[i] = c
    THEN LowerCase[CHOOSE i \in DOMAIN UpperCase : UpperCase[i] = c]
    ELSE c

\* str.lower()
Lower(text) == [i \in DOMAIN text |-> LowerChar(text[i])]

\* needle in text
Contains(text, needle) ==
    \E i \in 0..(Len(text) - Len(needle)) :
        SubSeq(text, i + 1, i + Len(needle)) = needle

\* any(keyword in text for keyword in keywords)
ContainsAny(text, keywords) ==
    \E k \in DOMAIN keywords : Contains(text, keywords[k])

\* the string literals of process_query's keyword lists
RouterKeyword ==
    [reorder |-> <<"r", "e", "o", "r", "d", "e", "r">>,
     stock |-> <<"s", "t", "o", "c", "k">>,
     inventory |-> <<"i", "n", "v", "e", "n", "t", "o", "r", "y">>,
     level |-> <<"l", "e", "v", "e", "l">>,
     minimum |-> <<"m", "i", "n", "i", "m", "u", "m">>,
     refill |-> <<"r", "e", "f", "i", "l", "l">>,
     replenish |-> <<"r", "e", "p", "l", "e", "n", "i", "s", "h">>,
     invest |-> <<"i", "n", "v", "e", "s", "t">>,
     buy |-> <<"b", "u", "y">>,
     purchase |-> <<"p", "u", "r", "c", "h", "a", "s", "e">>,
     recommend |-> <<"r", "e", "c", "o", "m", "m", "e", "n", "d">>,
     best_product |-> <<"b", "e", "s", "t", " ", "p", "r", "o", "d", "u", "c", "t">>]

\* the string literals generate_response looks for
ResponderKeyword ==
    [investment |-> <<"i", "n", "v", "e", "s", "t", "m", "e", "n", "t">>,
     stock |-> <<"s", "t", "o", "c", "k">>,
     inventory |-> <<"i", "n", "v", "e", "n", "t", "o", "r", "y">>,
     reorder |-> <<"r", "e", "o", "r", "d", "e", "r">>,
     coupon |-> <<"c", "o", "u", "p", "o", "n">>,
     expired |-> <<"e", "x", "p", "i", "r", "e", "d">>,
     active |-> <<"a", "c", "t", "i", "v", "e">>,
     suggest |-> <<"s", "u", "g", "g", "e", "s", "t">>,
     recommend |-> <<"r", "e", "c", "o", "m", "m", "e", "n", "d">>,
     sales |-> <<"s", "a", "l", "e", "s">>]

\* a mutation of reorder_keywords: 'stock' is not among them
reorder_keywords_without_stock ==
    <<RouterKeyword.reorder, RouterKeyword.inventory, RouterKeyword.level,
      RouterKeyword.minimum, RouterKeyword.refill, RouterKeyword.replenish>>

reorder_keywords ==
    <<RouterKeyword.reorder, RouterKeyword.stock, RouterKeyword.inventory,
      RouterKeyword.level, RouterKeyword.minimum, RouterKeyword.refill,
      RouterKeyword.replenish>>

investment_keywords ==
    <<RouterKeyword.invest, RouterKeyword.buy, RouterKeyword.purchase,
      RouterKeyword.recommend, RouterKeyword.best_product>>

\* the keywords of generate_response's inventory branch
responder_stock_keywords ==
    <<ResponderKeyword.stock, ResponderKeyword.inventory, ResponderKeyword.reorder>>

----------------------------------------------------------------------------
(* Query Router and generic responder *)

\* a mutation of RouteOf: the investment keywords tested first
RouteOfInvestmentFirst(query) ==
    LET query_lower == Lower(query)
    IN  IF ContainsAny(query_lower, investment_keywords) THEN "investment"
        ELSE IF ContainsAny(query_lower, reorder_keywords) THEN "reorder"
        ELSE "generic"

\* the branch of process_query a query takes
RouteOf(query) ==
    LET query_lower == Lower(query)
    IN  IF ContainsAny(query_lower, reorder_keywords) THEN "reorder"
        ELSE IF ContainsAny(query_lower, investment_keywords) THEN "investment"
        ELSE "generic"

\* min(30, int(float(price) * 0.15))
SuggestedDiscount(price) == Min(30, TruncToInt(RMul(Float(price), Frac(15, 100))))

Report(kind, body) == [kind |-> kind, body |-> body]

Greeting == Report("greeting", "Hello! I'm your retail assistant.")

generate_response(query, context) ==
    LET q == Lower(query)
        low_stock == context.inventory_status.low_stock
        overstock == context.inventory_status.overstock
        expired == context.coupon_status.expired_coupons
        active == context.coupon_status.active_coupons
        AfterCoupon ==
            IF Contains(q, ResponderKeyword.sales)
            THEN Report("sales_summary",
                        [total_orders |-> context.sales_analysis.total_orders,
                         popular_products |-> context.sales_analysis.popular_products])
            ELSE Greeting
        AfterStock ==
            IF Contains(q, ResponderKeyword.coupon)
            THEN IF Contains(q, ResponderKeyword.expired)
                 THEN (IF expired # <<>> THEN Report("expired_coupons", expired)
                       ELSE Report("no_expired_coupons", <<>>))
                 ELSE IF Contains(q, ResponderKeyword.active)
                 THEN (IF active # <<>> THEN Report("active_coupons", active)
                       ELSE Report("no_active_coupons", <<>>))
                 ELSE IF \/ Contains(q, ResponderKeyword.suggest)
                         \/ Contains(q, ResponderKeyword.recommend)
                 THEN (IF overstock # <<>>
                       THEN Report("promotions",
                                   [i \in 1..Min(3, Len(overstock)) |->
                                       [name |-> overstock[i].name,
                                        suggested_discount |->
                                            SuggestedDiscount(overstock[i].price),
                                        price |-> overstock[i].price]])
                       ELSE AfterCoupon)
                 ELSE AfterCoupon
            ELSE AfterCoupon
        AfterInvestment ==
            IF ContainsAny(q, responder_stock_keywords) /\ low_stock # <<>>
            THEN Report("low_stock_alert", low_stock)
            ELSE AfterStock
    IN  IF Contains(q, ResponderKeyword.investment) /\ "best_product" \in DOMAIN context
        THEN Report("investment_pick", context.best_product)
        ELSE AfterInvestment

\* a mutation of Analyse: the investment branch reports Variant A's ranking
AnalyseWithVariantA(query, inventory, orders, coupons, prods, current_date) ==
    LET branch == RouteOf(query)
    IN  IF branch = "reorder"
        THEN Ok(Report("reorder", _check_reorder_levels(inventory, orders)))
        ELSE IF branch = "investment"
        THEN LET ranking == get_best_investment_recommendations(inventory, orders)
             IN  IF Raised(ranking) THEN ranking
                 ELSE Ok(Report("recommendations", ranking.val))
        ELSE LET coupon_status == _analyze_coupon_effectiveness(coupons, current_date)
             IN  IF Raised(coupon_status) THEN coupon_status
                 ELSE Ok(generate_response(query,
                             [inventory_status |-> _analyze_inventory_health(inventory),
                              sales_analysis |-> _analyze_sales_trends(orders),
                              coupon_status |-> coupon_status.val]))

\* the body of process_query's try block after fetch_data, on the collections
\* the call has read
Analyse(query, inventory, orders, coupons, prods, current_date) ==
    LET branch == RouteOf(query)
    IN  IF branch = "reorder"
        THEN Ok(Report("reorder", _check_reorder_levels(inventory, orders)))
        ELSE IF branch = "investment"
        THEN LET product_analysis == _analyze_product_potential(prods, orders)
             IN  IF Raised(product_analysis) THEN product_analysis
                 ELSE Ok(Report("investment", product_analysis.val))
        ELSE LET coupon_status == _analyze_coupon_effectiveness(coupons, current_date)
             IN  IF Raised(coupon_status) THEN coupon_status
                 ELSE Ok(generate_response(query,
                             [inventory_status |-> _analyze_inventory_health(inventory),
                              sales_analysis |-> _analyze_sales_trends(orders),
                              coupon_status |-> coupon_status.val]))

ApologyText == "I apologize, but I encountered an error while processing your request."

\* a mutation of ExceptHandler: the exception's text is returned to the caller
ExceptHandlerLeaking(exc) == Report("error", exc)

\* process_query's except clause: what the call returns after exception exc
ExceptHandler(exc) == Report("apology", ApologyText)

----------------------------------------------------------------------------
(* The inputs the specifications draw from *)

Product(id, stock, unit_price, cost_price) ==
    [ws_item_id |-> id, ws_item_name |-> id, ws_stock |-> stock,
     ws_unit_price |-> unit_price, ws_cost_price |-> cost_price]

OrderLine(id, quantity, unit_price) ==
    [ws_item_id |-> id, ws_item_name |-> id, ws_quantity |-> quantity,
     ws_unit_price |-> unit_price]

Coupon(code, offer_percent, start_date, end_date) ==
    [ws_coupon_code |-> code, ws_campaigns_name |-> "campaign",
     ws_offer_percent |-> offer_percent,
     ws_start_date |-> start_date, ws_end_date |-> end_date]

\* the products of the Inventory Classifier's inputs: stocks around both
\* thresholds, and a product with no fields but its id
HealthProducts ==
    {[ws_item_id |-> id, ws_item_name |-> id, ws_stock |-> stock, ws_unit_price |-> 10] :
        id \in {"p1", "p2"}, stock \in {0, 20, 21, 50, 51}}
    \cup {[ws_item_id |-> "p3"]}

HealthInventories ==
    {InventoryPayload(ps) : ps \in SeqsUpTo(HealthProducts, MaxProducts)}
    \cup {EmptyDict}

\* the order lines of the Sales Aggregator's inputs: four product ids, lines
\* without an id, without a quantity and without a price
SalesLines ==
    {OrderLine(id, quantity, 3) : id \in {"p1", "p2", "p3"}, quantity \in {1, 2}}
    \cup {[ws_item_name |-> "anonymous", ws_quantity |-> 2, ws_unit_price |-> 5],
          [ws_item_id |-> "p1", ws_item_name |-> "p1", ws_unit_price |-> 5],
          [ws_item_id |-> "p2", ws_item_name |-> "p2", ws_quantity |-> 1]}

SalesOrders ==
    {OrdersPayload(os) : os \in SeqsUpTo(SalesLines, MaxOrders)} \cup {EmptyDict}

\* the clock dates and the date strings of the Coupon Classifier's inputs:
\* around a leap day and across a year's end; a day that does not exist and a
\* string that is no date
Todays == {[year |-> 2024, month |-> 3, day |-> 1],
           [year |-> 2024, month |-> 12, day |-> 31]}

GoodDates == {<<2024, 2, 29>>, <<2024, 3, 1>>, <<2024, 3, 2>>, <<2025, 1, 1>>}

BadDates == {<<2023, 2, 29>>, <<2024, 13>>}

ClassifierCoupons ==
    {Coupon("c", offer_percent, <<2024, 1, 1>>, end_date) :
        offer_percent \in {20, 25}, end_date \in GoodDates \cup BadDates}
    \cup {Coupon("c", 25, <<2024, 0, 1>>, <<2024, 3, 2>>),
          [ws_coupon_code |-> "nodates", ws_offer_percent |-> 25],
          [ws_coupon_code |-> "nopercent",
           ws_start_date |-> <<2024, 1, 1>>, ws_end_date |-> <<2024, 3, 1>>]}

ClassifierCouponPayloads ==
    {CouponsPayload(cs) : cs \in SeqsUpTo(ClassifierCoupons, MaxCoupons)}
    \cup {EmptyDict}

\* the products and order lines of the Investment Scorer's inputs
ScoredProducts ==
    {Product("p1", stock, unit_price, cost_price) :
        stock \in {0, 14, 42, 60}, unit_price \in {0, 10}, cost_price \in {6, 15}}
    \cup {[ws_item_id |-> "p1", ws_item_name |-> "p1", ws_stock |-> 42,
           ws_unit_price |-> 10],
          [ws_item_id |-> "p1", ws_item_name |-> "p1", ws_stock |-> 42]}

ScoredInventories ==
    {InventoryPayload(ps) : ps \in SeqsUpTo(ScoredProducts, MaxScored)}

ScoredLines ==
    {OrderLine("p1", 30, 10), OrderLine("p1", 90, 10), OrderLine("p1", 0, 10),
     OrderLine("p2", 30, 100)}

ScoredOrders ==
    {OrdersPayload(os) : os \in SeqsUpTo(ScoredLines, MaxScoredOrders)}

\* the products and order lines of the Reorder Planner's inputs
PlannedProducts ==
    {[ws_item_id |-> "p1", ws_item_name |-> "p1", ws_stock |-> stock,
      ws_unit_price |-> 10, ws_min_stock |-> min_stock] :
        stock \in {0, 5, 20, 21, 30, 31}, min_stock \in {0, 20}}
    \cup {[ws_item_id |-> "p1", ws_item_name |-> "p1", ws_stock |-> stock,
           ws_unit_price |-> 10] : stock \in {5, 30, 31}}
    \cup {[ws_item_id |-> "p2", ws_item_name |-> "p2", ws_stock |-> 5,
           ws_unit_price |-> 10, ws_min_stock |-> 20],
          [ws_item_id |-> "p2", ws_item_name |-> "p2"]}

PlannedInventories ==
    {InventoryPayload(ps) : ps \in SeqsUpTo(PlannedProducts, MaxPlanned)}

PlannedLines == {OrderLine("p1", 3, 10), OrderLine("p1", 60, 10)}

PlannedOrders ==
    {OrdersPayload(os) : os \in SeqsUpTo(PlannedLines, MaxPlannedOrders)}

\* what the three upstream endpoints answer while the server runs: a first
\* snapshot; one after a sale, with a product whose price is 0; one whose
\* coupon has a date that does not exist
GoodInventory ==
    InventoryPayload(<<Product("p1", 5, 10, 6) @@ [ws_min_stock |-> 20],
                       Product("p2", 60, 20, 5)>>)

GoodCoupons ==
    CouponsPayload(<<Coupon("SPRING", 25, <<2024, 1, 1>>, <<2024, 3, 2>>),
                     Coupon("WINTER", 10, <<2023, 12, 1>>, <<2024, 2, 29>>)>>)

Datasets ==
    {[inventory |-> GoodInventory,
      orders |-> OrdersPayload(<<OrderLine("p1", 60, 10)>>),
      coupons |-> GoodCoupons],
     [inventory |-> InventoryPayload(<<Product("p1", 4, 10, 6) @@ [ws_min_stock |-> 20],
                                       Product("p3", 30, 0, 0)>>),
      orders |-> OrdersPayload(<<OrderLine("p1", 60, 10), OrderLine("p1", 1, 10)>>),
      coupons |-> GoodCoupons],
     [inventory |-> GoodInventory,
      orders |-> OrdersPayload(<<OrderLine("p1", 60, 10), OrderLine("p1", 1, 10)>>),
      coupons |-> CouponsPayload(<<Coupon("BROKEN", 25, <<2024, 1, 1>>,
                                          <<2024, 2, 30>>)>>)]}

\* words of query texts
Word ==
    [stock |-> <<"s", "t", "o", "c", "k">>,
     LEVEL |-> <<"L", "E", "V", "E", "L">>,
     Invest |-> <<"I", "n", "v", "e", "s", "t">>,
     investment |-> <<"i", "n", "v", "e", "s", "t", "m", "e", "n", "t">>,
     buy |-> <<"b", "u", "y">>,
     recommend |-> <<"r", "e", "c", "o", "m", "m", "e", "n", "d">>,
     best |-> <<"b", "e", "s", "t">>,
     product |-> <<"p", "r", "o", "d", "u", "c", "t">>,
     coupon |-> <<"c", "o", "u", "p", "o", "n">>,
     active |-> <<"a", "c", "t", "i", "v", "e">>,
     expired |-> <<"e", "x", "p", "i", "r", "e", "d">>,
     suggest |-> <<"s", "u", "g", "g", "e", "s", "t">>,
     sales |-> <<"s", "a", "l", "e", "s">>,
     hello |-> <<"h", "e", "l", "l", "o">>,
     inventory |-> <<"i", "n", "v", "e", "n", "t", "o", "r", "y">>,
     reorder |-> <<"r", "e", "o", "r", "d", "e", "r">>,
     minimum |-> <<"m", "i", "n", "i", "m", "u", "m">>,
     refill |-> <<"r", "e", "f", "i", "l", "l">>,
     replenish |-> <<"r", "e", "p", "l", "e", "n", "i", "s", "h">>,
     purchase |-> <<"p", "u", "r", "c", "h", "a", "s", "e">>]

\* the words query texts are made of: every routing keyword, one in upper
\* and one in mixed case, a word that contains a keyword, the two halves of
\* the two-word keyword, the generic responder's words and a word that is
\* no keyword
Vocabulary == {Word.stock, Word.LEVEL, Word.Invest, Word.investment, Word.buy,
               Word.recommend, Word.best, Word.product, Word.coupon, Word.active,
               Word.expired, Word.suggest, Word.sales, Word.hello, Word.inventory,
               Word.reorder, Word.minimum, Word.refill, Word.replenish, Word.purchase}

\* " ".join(words)
RECURSIVE Join(_)
Join(words) ==
    IF words = <<>> THEN <<>>
    ELSE IF Len(words) = 1 THEN words[1]
    ELSE words[1] \o <<" ">> \o Join(Tail(words))

Queries == {Join(ws) : ws \in SeqsUpTo(Vocabulary, MaxQueryWords)}

\* the queries the clients of the running server send
SampleQueries ==
    {Join(<<Word.stock, Word.LEVEL>>), Join(<<Word.best, Word.product>>),
     Join(<<Word.active, Word.coupon>>)}

----------------------------------------------------------------------------
(* State *)

VARIABLES
    inventory_data,      \* assistant.inventory_data
    orders_data,         \* assistant.orders_data
    coupons_data,        \* assistant.coupons_data
    products,            \* assistant.products
    product_embeddings,  \* assistant.product_embeddings
    upstream,            \* what the three endpoints answer now
    today,               \* datetime.now().date()
    pc,                  \* where each server thread is in process_query
    local,               \* each server thread's call: its locals and result
    stored_by,           \* the call whose fetch stored each shared collection
    log,                 \* the messages given to logger.error
    ret                  \* the method called directly and what it returned

vars == <<inventory_data, orders_data, coupons_data, products, product_embeddings,
          upstream, today, pc, local, stored_by, log, ret>>

assistant == <<inventory_data, orders_data, coupons_data, products, product_embeddings,
               stored_by>>

Threads == {"t1", "t2"}

NoCall == <<"none", 0>>

Fields == {"inventory_data", "orders_data", "coupons_data", "products"}

\* the locals of a call that has not read anything yet
FreshLocal(calls, query) ==
    [calls |-> calls, query |-> query, branch |-> "none", todo |-> <<>>,
     inventory_data |-> None, orders_data |-> None, coupons_data |-> None,
     products |-> None, read_from |-> [f \in {} |-> NoCall],
     raised |-> "none", result |-> None]

\* the call a thread is making
CallOf(t) == <<t, local[t].calls>>

\* the shared collections a branch reads, in the order it reads them
ReadOrder(branch) ==
    IF branch = "reorder" THEN <<"inventory_data", "orders_data">>
    ELSE IF branch = "investment" THEN <<"orders_data", "inventory_data", "products">>
    ELSE <<"inventory_data", "orders_data", "coupons_data">>

\* the value of a shared collection now
Shared(field) ==
    IF field = "inventory_data" THEN inventory_data
    ELSE IF field = "orders_data" THEN orders_data
    ELSE IF field = "coupons_data" THEN coupons_data
    ELSE products

\* self.model.encode(product_descriptions): one vector for each description
Encode(prods) == [i \in DOMAIN prods |-> "vector"]

\* the assistant after __init__
InitAssistant ==
    /\ inventory_data = None
    /\ orders_data = None
    /\ coupons_data = None
    /\ products = None
    /\ product_embeddings = None
    /\ stored_by = [f \in Fields |-> NoCall]
    /\ log = {}
    /\ ret = [call |-> "none"]

\* the server threads waiting for a query
InitServer ==
    /\ InitAssistant
    /\ pc = [t \in Threads |-> "idle"]
    /\ local = [t \in Threads |-> FreshLocal(0, <<>>)]

\* the threads' state when t1 has been handed a query and no thread has started
Posted(query) ==
    /\ pc = [t \in Threads |-> IF t = "t1" THEN "fetch_inventory" ELSE "idle"]
    /\ local = [t \in Threads |->
                   IF t = "t1" THEN FreshLocal(1, query) ELSE FreshLocal(0, <<>>)]

\* the assistant after a fetch_data that stored these three collections, which
\* the endpoints still answer
FetchedAssistant(inventory, orders, coupons) ==
    /\ inventory_data = inventory
    /\ orders_data = orders
    /\ coupons_data = coupons
    /\ products = _get_products(inventory)
    /\ product_embeddings = Encode(_get_products(inventory))
    /\ upstream = [inventory |-> inventory, orders |-> orders, coupons |-> coupons]
    /\ stored_by = [f \in Fields |-> NoCall]
    /\ log = {}
    /\ ret = [call |-> "none"]

Fetched(inventory, orders, coupons) ==
    /\ FetchedAssistant(inventory, orders, coupons)
    /\ pc = [t \in Threads |-> "idle"]
    /\ local = [t \in Threads |-> FreshLocal(0, <<>>)]

----------------------------------------------------------------------------
(* process_query, step by step, on server thread t *)

\* the route hands a query to assistant.process_query
Submit(t, query) ==
    /\ pc[t] \in {"idle", "done"}
    /\ local[t].calls < MaxCalls
    /\ local' = [local EXCEPT ![t] = FreshLocal(local[t].calls + 1, query)]
    /\ pc' = [pc EXCEPT ![t] = "fetch_inventory"]
    /\ UNCHANGED <<assistant, upstream, today, log, ret>>

\* fetch_data's except clause logs and raises again
FetchFailed(t, exc) ==
    /\ log' = log \cup {<<"Error fetching data", exc>>}
    /\ local' = [local EXCEPT ![t].raised = exc]
    /\ pc' = [pc EXCEPT ![t] = "except"]

FetchInventory(t) ==
    /\ pc[t] = "fetch_inventory"
    /\ \/ /\ inventory_data' = upstream.inventory
          /\ stored_by' = [stored_by EXCEPT !.inventory_data = CallOf(t)]
          /\ pc' = [pc EXCEPT ![t] = "fetch_orders"]
          /\ UNCHANGED <<local, log>>
       \/ /\ FetchFailed(t, "ConnectionError")
          /\ UNCHANGED <<inventory_data, stored_by>>
    /\ UNCHANGED <<orders_data, coupons_data, products, product_embeddings,
                   upstream, today, ret>>

\* a mutation of FetchOrders: orders stored by an earlier call are kept
FetchOrdersCached(t) ==
    /\ pc[t] = "fetch_orders"
    /\ IF stored_by.orders_data = NoCall
       THEN /\ orders_data' = upstream.orders
            /\ stored_by' = [stored_by EXCEPT !.orders_data = CallOf(t)]
       ELSE UNCHANGED <<orders_data, stored_by>>
    /\ pc' = [pc EXCEPT ![t] = "fetch_coupons"]
    /\ UNCHANGED <<inventory_data, coupons_data, products, product_embeddings,
                   upstream, today, local, log, ret>>

FetchOrders(t) ==
    /\ pc[t] = "fetch_orders"
    /\ \/ /\ orders_data' = upstream.orders
          /\ stored_by' = [stored_by EXCEPT !.orders_data = CallOf(t)]
          /\ pc' = [pc EXCEPT ![t] = "fetch_coupons"]
          /\ UNCHANGED <<local, log>>
       \/ /\ FetchFailed(t, "ConnectionError")
          /\ UNCHANGED <<orders_data, stored_by>>
    /\ UNCHANGED <<inventory_data, coupons_data, products, product_embeddings,
                   upstream, today, ret>>

FetchCoupons(t) ==
    /\ pc[t] = "fetch_coupons"
    /\ \/ /\ coupons_data' = upstream.coupons
          /\ stored_by' = [stored_by EXCEPT !.coupons_data = CallOf(t)]
          /\ pc' = [pc EXCEPT ![t] = "embeddings"]
          /\ UNCHANGED <<local, log>>
       \/ /\ FetchFailed(t, "ConnectionError")
          /\ UNCHANGED <<coupons_data, stored_by>>
    /\ UNCHANGED <<inventory_data, orders_data, products, product_embeddings,
                   upstream, today, ret>>

\* _generate_product_embeddings: self.products from the inventory stored now,
\* then the encoder, which may raise
GenerateEmbeddings(t) ==
    /\ pc[t] = "embeddings"
    /\ products' = _get_products(inventory_data)
    /\ stored_by' = [stored_by EXCEPT !.products = stored_by.inventory_data]
    /\ \/ /\ product_embeddings' = Encode(_get_products(inventory_data))
          /\ pc' = [pc EXCEPT ![t] = "route"]
          /\ UNCHANGED <<local, log>>
       \/ /\ FetchFailed(t, "RuntimeError")
          /\ UNCHANGED product_embeddings
    /\ UNCHANGED <<inventory_data, orders_data, coupons_data, upstream, today, ret>>

\* the keyword tests choose the branch
Route(t) ==
    /\ pc[t] = "route"
    /\ local' = [local EXCEPT ![t].branch = RouteOf(local[t].query),
                              ![t].todo = ReadOrder(RouteOf(local[t].query))]
    /\ pc' = [pc EXCEPT ![t] = "analyse"]
    /\ UNCHANGED <<assistant, upstream, today, log, ret>>

\* the branch reads the next shared collection it uses
Read(t) ==
    /\ pc[t] = "analyse"
    /\ local[t].todo # <<>>
    /\ LET field == Head(local[t].todo)
       IN  local' = [local EXCEPT
                        ![t][field] = Shared(field),
                        ![t].read_from = (field :> stored_by[field]) @@ @,
                        ![t].todo = Tail(@)]
    /\ UNCHANGED <<assistant, upstream, today, pc, log, ret>>

\* the branch computes its report from what it read, or raises
Compute(t) ==
    /\ pc[t] = "analyse"
    /\ local[t].todo = <<>>
    /\ LET r == Analyse(local[t].query, local[t].inventory_data, local[t].orders_data,
                        local[t].coupons_data, local[t].products, today)
       IN  IF Raised(r)
           THEN /\ local' = [local EXCEPT ![t].raised = r.exc]
                /\ pc' = [pc EXCEPT ![t] = "except"]
           ELSE /\ local' = [local EXCEPT ![t].result = r.val]
                /\ pc' = [pc EXCEPT ![t] = "done"]
    /\ UNCHANGED <<assistant, upstream, today, log, ret>>

\* process_query's except clause logs the exception and returns the apology
Except(t) ==
    /\ pc[t] = "except"
    /\ log' = log \cup {<<"Error processing query", local[t].raised>>}
    /\ local' = [local EXCEPT ![t].result = ExceptHandler(local[t].raised)]
    /\ pc' = [pc EXCEPT ![t] = "done"]
    /\ UNCHANGED <<assistant, upstream, today, ret>>

\* the upstream services' data changes
UpstreamUpdate ==
    /\ \E d \in Datasets :
          /\ d # upstream
          /\ upstream' = d
    /\ UNCHANGED <<assistant, today, pc, local, log, ret>>

Step(t) ==
    \/ FetchInventory(t)
    \/ FetchOrders(t)
    \/ FetchCoupons(t)
    \/ GenerateEmbeddings(t)
    \/ Route(t)
    \/ Read(t)
    \/ Compute(t)
    \/ Except(t)

\* no other thread is inside process_query
Alone(t) == \A u \in Threads \ {t} : pc[u] \in {"idle", "done"}

----------------------------------------------------------------------------
(* Specifications *)

\* the server handling one query at a time
Init ==
    /\ InitServer
    /\ upstream \in Datasets
    /\ today = [year |-> 2024, month |-> 3, day |-> 1]

Next ==
    \/ \E t \in Threads : \E query \in SampleQueries : Alone(t) /\ Submit(t, query)
    \/ \E t \in Threads : Alone(t) /\ FetchInventory(t)
    \/ \E t \in Threads : Alone(t) /\ FetchOrders(t)
    \/ \E t \in Threads : Alone(t) /\ FetchCoupons(t)
    \/ \E t \in Threads : Alone(t) /\ GenerateEmbeddings(t)
    \/ \E t \in Threads : Alone(t) /\ Route(t)
    \/ \E t \in Threads : Alone(t) /\ Read(t)
    \/ \E t \in Threads : Alone(t) /\ Compute(t)
    \/ \E t \in Threads : Alone(t) /\ Except(t)
    \/ UpstreamUpdate

Spec == Init /\ [][Next]_vars

\* the server's threads handling queries at the same time
NextConcurrent ==
    \/ \E t \in Threads : \E query \in SampleQueries : Submit(t, query)
    \/ \E t \in Threads : Step(t)
    \/ UpstreamUpdate

SpecConcurrent == Init /\ [][NextConcurrent]_vars

\* one call of process_query, for every query text
RouterDataset ==
    [inventory |-> GoodInventory,
     orders |-> OrdersPayload(<<OrderLine("p1", 60, 10)>>),
     coupons |-> GoodCoupons]

InitRouter ==
    /\ InitAssistant
    /\ upstream = RouterDataset
    /\ today = [year |-> 2024, month |-> 3, day |-> 1]
    /\ \E query \in Queries : Posted(query)

NextRouter == Step("t1")

SpecRouter == InitRouter /\ [][NextRouter]_vars

----------------------------------------------------------------------------
(* The analytics methods called directly on a fetched assistant *)

NoOrders == OrdersPayload(<<>>)

NoCoupons == CouponsPayload(<<>>)

NoInventory == InventoryPayload(<<>>)

Returned(call, result) ==
    /\ ret.call = "none"
    /\ ret' = [call |-> call, result |-> result]
    /\ UNCHANGED <<assistant, upstream, today, pc, local, log>>

CallAnalyzeInventoryHealth ==
    Returned("_analyze_inventory_health", _analyze_inventory_health(inventory_data))

InitInventory ==
    /\ \E inventory \in HealthInventories : Fetched(inventory, NoOrders, NoCoupons)
    /\ today = [year |-> 2024, month |-> 3, day |-> 1]

SpecInventory == InitInventory /\ [][CallAnalyzeInventoryHealth]_vars

CallAnalyzeSalesTrends ==
    Returned("_analyze_sales_trends", _analyze_sales_trends(orders_data))

InitSales ==
    /\ \E orders \in SalesOrders : Fetched(NoInventory, orders, NoCoupons)
    /\ today = [year |-> 2024, month |-> 3, day |-> 1]

SpecSales == InitSales /\ [][CallAnalyzeSalesTrends]_vars

CallAnalyzeCouponEffectiveness ==
    Returned("_analyze_coupon_effectiveness",
             _analyze_coupon_effectiveness(coupons_data, today))

\* the queries about coupons
CouponQueries == {Join(<<Word.active, Word.coupon>>), Join(<<Word.expired, Word.coupon>>)}

\* the classifier called directly, and by one process_query call about coupons
InitCoupons ==
    /\ \E coupons \in ClassifierCouponPayloads, query \in CouponQueries :
          /\ FetchedAssistant(NoInventory, NoOrders, coupons)
          /\ Posted(query)
    /\ today \in Todays

NextCoupons ==
    \/ CallAnalyzeCouponEffectiveness
    \/ Step("t1")

SpecCoupons == InitCoupons /\ [][NextCoupons]_vars

\* Variant A on one product of the inventory
CallCalculateInvestmentScore ==
    \E i \in DOMAIN _get_products(inventory_data) :
        Returned("_calculate_investment_score",
                 [product |-> _get_products(inventory_data)[i],
                  score |-> _calculate_investment_score(
                                _get_products(inventory_data)[i],
                                _analyze_sales_trends(orders_data))])

\* Variant A on the inventory, ranked
CallGetBestInvestmentRecommendations ==
    Returned("get_best_investment_recommendations",
             get_best_investment_recommendations(inventory_data, orders_data))

\* Variant B
CallAnalyzeProductPotential ==
    Returned("_analyze_product_potential",
             _analyze_product_potential(products, orders_data))

InitScore ==
    /\ \E inventory \in ScoredInventories, orders \in ScoredOrders :
          Fetched(inventory, orders, NoCoupons)
    /\ today = [year |-> 2024, month |-> 3, day |-> 1]

NextScore ==
    \/ CallCalculateInvestmentScore
    \/ CallGetBestInvestmentRecommendations
    \/ CallAnalyzeProductPotential

SpecScore == InitScore /\ [][NextScore]_vars

CallCheckReorderLevels ==
    Returned("_check_reorder_levels", _check_reorder_levels(inventory_data, orders_data))

InitReorder ==
    /\ \E inventory \in PlannedInventories, orders \in PlannedOrders :
          Fetched(inventory, orders, NoCoupons)
    /\ today = [year |-> 2024, month |-> 3, day |-> 1]

SpecReorder == InitReorder /\ [][CallCheckReorderLevels]_vars

\* process_query on every query text, next to Variant A called directly on
\* what the call fetched
VariantDatasets ==
    {[inventory |-> GoodInventory,
      orders |-> OrdersPayload(<<OrderLine("p1", 60, 10), OrderLine("p2", 30, 20)>>),
      coupons |-> GoodCoupons],
     [inventory |-> GoodInventory,
      orders |-> OrdersPayload(<<OrderLine("p1", 60, 10)>>),
      coupons |-> GoodCoupons]}

InitVariants ==
    /\ InitAssistant
    /\ upstream \in VariantDatasets
    /\ today = [year |-> 2024, month |-> 3, day |-> 1]
    /\ \E query \in Queries : Posted(query)

NextVariants ==
    \/ Step("t1")
    \/ /\ pc["t1"] = "done"
       /\ local["t1"].raised = "none"
       /\ ret.call = "none"
       /\ CallGetBestInvestmentRecommendations

SpecVariants == InitVariants /\ [][NextVariants]_vars

----------------------------------------------------------------------------
(* Claims *)

\* how many times v occurs in the list
Count(list, v) == Cardinality({i \in DOMAIN list : list[i] = v})

\* C1: when two process_query calls run concurrently, every report is computed
\* only from collections that the reporting call's own fetch_data stored
C1_RequestLocalSnapshot ==
    \A t \in Threads :
        (pc[t] = "done" /\ local[t].raised = "none")
        => \A f \in DOMAIN local[t].read_from : local[t].read_from[f] = CallOf(t)

ClaimedReorderWords ==
    {Word.reorder, Word.stock, Word.inventory, Lower(Word.LEVEL), Word.minimum,
     Word.refill, Word.replenish}

ClaimedInvestmentWords ==
    {Lower(Word.Invest), Word.buy, Word.purchase, Word.recommend,
     Join(<<Word.best, Word.product>>)}

GenericKinds ==
    {"investment_pick", "low_stock_alert", "expired_coupons", "no_expired_coupons",
     "active_coupons", "no_active_coupons", "promotions", "sales_summary", "greeting"}

ClaimedBranch(query) ==
    IF \E k \in ClaimedReorderWords : Contains(Lower(query), k) THEN "reorder"
    ELSE IF \E k \in ClaimedInvestmentWords : Contains(Lower(query), k) THEN "investment"
    ELSE "generic"

\* C2: a query containing a reorder keyword, in any case, is answered by the
\* reorder analysis, also when it contains an investment keyword; otherwise one
\* containing an investment keyword by the investment analysis; every other
\* one by the generic responder; and the report comes from that one branch
C2_RoutingPrecedence ==
    \A t \in Threads :
        /\ pc[t] = "analyse" => local[t].branch = ClaimedBranch(local[t].query)
        /\ (pc[t] = "done" /\ local[t].raised = "none")
           => /\ local[t].branch = ClaimedBranch(local[t].query)
              /\ local[t].branch = "reorder" <=> local[t].result.kind = "reorder"
              /\ local[t].branch = "investment" <=> local[t].result.kind = "investment"
              /\ local[t].branch = "generic" <=> local[t].result.kind \in GenericKinds

\* a query with a reorder keyword and an investment keyword in mixed case was
\* answered by the reorder analysis
C2_Witness ==
    /\ pc["t1"] = "done"
    /\ local["t1"].query = Join(<<Word.Invest, Word.LEVEL>>)
    /\ local["t1"].result.kind = "reorder"

\* C3: the inventory classification puts every product in exactly one of the
\* three lists: low_stock iff stock <= 20, overstock iff stock > 50,
\* healthy_stock otherwise; the lists' sizes sum to the number of products
C3_InventoryPartition ==
    ret.call = "_analyze_inventory_health"
    => LET input == [i \in DOMAIN _get_products(inventory_data) |->
                        HealthInfo(_get_products(inventory_data)[i])]
           low == ret.result.low_stock
           healthy == ret.result.healthy_stock
           over == ret.result.overstock
       IN  /\ Len(low) + Len(healthy) + Len(over) = Len(input)
           /\ \A v \in Range(input) :
                 /\ Count(low, v) = (IF v.stock <= 20 THEN Count(input, v) ELSE 0)
                 /\ Count(over, v) = (IF v.stock > 50 THEN Count(input, v) ELSE 0)
                 /\ Count(healthy, v) =
                        (IF v.stock > 20 /\ v.stock <= 50 THEN Count(input, v) ELSE 0)
           /\ Range(low) \cap Range(healthy) = {}
           /\ Range(low) \cap Range(over) = {}
           /\ Range(healthy) \cap Range(over) = {}

\* products at both thresholds and above were classified, one into each list
C3_Witness ==
    /\ ret.call = "_analyze_inventory_health"
    /\ \E i \in DOMAIN ret.result.low_stock : ret.result.low_stock[i].stock = 20
    /\ \E i \in DOMAIN ret.result.healthy_stock : ret.result.healthy_stock[i].stock = 50
    /\ \E i \in DOMAIN ret.result.overstock : ret.result.overstock[i].stock = 51

\* the dates of a coupon are both well formed
WellFormed(coupon) ==
    /\ ~Raised(Strptime(Get(coupon, "ws_start_date", <<>>)))
    /\ ~Raised(Strptime(Get(coupon, "ws_end_date", <<>>)))

\* what the classifier lists for a coupon with well-formed dates
ClaimedCouponInfo(coupon) ==
    [code       |-> Get(coupon, "ws_coupon_code", None),
     discount   |-> Get(coupon, "ws_offer_percent", 0),
     campaign   |-> Get(coupon, "ws_campaigns_name", None),
     start_date |-> Get(coupon, "ws_start_date", <<>>),
     end_date   |-> Get(coupon, "ws_end_date", <<>>)]

\* date string a is not before the date today, compared as year, month, day
NotBefore(a, date) ==
    a[1] * 10000 + a[2] * 100 + a[3] >= date.year * 10000 + date.month * 100 + date.day

\* C4: when every coupon's dates are well formed, each coupon is in exactly
\* one of active_coupons (end_date >= current_date) and expired_coupons
\* (end_date < current_date), and high_value_coupons holds exactly the coupons
\* with discount_percent > 20, whatever their date bucket
C4_CouponPartition ==
    (/\ ret.call = "_analyze_coupon_effectiveness"
     /\ \A i \in DOMAIN CouponsOf(coupons_data) : WellFormed(CouponsOf(coupons_data)[i]))
    => /\ ~Raised(ret.result)
       /\ LET input == [i \in DOMAIN CouponsOf(coupons_data) |->
                           ClaimedCouponInfo(CouponsOf(coupons_data)[i])]
              active == ret.result.val.active_coupons
              expired == ret.result.val.expired_coupons
              high == ret.result.val.high_value_coupons
          IN  /\ Len(active) + Len(expired) = Len(input)
              /\ \A v \in Range(input) :
                    /\ Count(active, v) =
                           (IF NotBefore(v.end_date, today) THEN Count(input, v) ELSE 0)
                    /\ Count(expired, v) =
                           (IF NotBefore(v.end_date, today) THEN 0 ELSE Count(input, v))
                    /\ Count(high, v) = (IF v.discount > 20 THEN Count(input, v) ELSE 0)
              /\ Range(active) \cap Range(expired) = {}
              /\ Range(high) \subseteq Range(active) \cup Range(expired)
              /\ Len(high) = Cardinality({i \in DOMAIN input : input[i].discount > 20})

\* a coupon of 25 percent that ended the day before today is listed as expired
\* and as high-value, next to a coupon that ends today and is active
C4_Witness ==
    /\ ret.call = "_analyze_coupon_effectiveness"
    /\ today = [year |-> 2024, month |-> 3, day |-> 1]
    /\ ~Raised(ret.result)
    /\ \E i \in DOMAIN ret.result.val.expired_coupons :
          /\ ret.result.val.expired_coupons[i].end_date = <<2024, 2, 29>>
          /\ ret.result.val.expired_coupons[i].discount = 25
          /\ ret.result.val.expired_coupons[i] \in Range(ret.result.val.high_value_coupons)
    /\ \E i \in DOMAIN ret.result.val.active_coupons :
          ret.result.val.active_coupons[i].end_date = <<2024, 3, 1>>

\* the coupon list has a coupon whose dates are not both well formed
HasBadDate(coupons_payload) ==
    \E i \in DOMAIN CouponsOf(coupons_payload) : ~WellFormed(CouponsOf(coupons_payload)[i])

\* C5, as claimed: a process_query call whose coupon classification meets a
\* malformed or missing date surfaces a typed InvalidDateError to its caller
C5_InvalidDateErrorSurfaced ==
    \A t \in Threads :
        (pc[t] = "done" /\ local[t].branch = "generic" /\ HasBadDate(local[t].coupons_data))
        => local[t].result = Report("raised", "InvalidDateError")

\* C5, amended: a malformed or missing start or end date makes the coupon
\* classification raise ValueError to its caller, with no classification
\* returned and no coupon skipped; process_query catches it, logs it and
\* returns the apology
C5_BadDateRaisesValueError ==
    /\ (ret.call = "_analyze_coupon_effectiveness" /\ HasBadDate(coupons_data))
       => ret.result = Raise("ValueError")
    /\ \A t \in Threads :
          (pc[t] = "done" /\ local[t].branch = "generic"
             /\ HasBadDate(local[t].coupons_data))
          => /\ local[t].raised = "ValueError"
             /\ local[t].result = Report("apology", ApologyText)
             /\ <<"Error processing query", "ValueError">> \in log

\* a call read a well-formed coupon followed by one with a bad date, and
\* returned the apology; the classifier called directly on them raised
C5_Witness ==
    /\ pc["t1"] = "done"
    /\ local["t1"].branch = "generic"
    /\ Len(CouponsOf(local["t1"].coupons_data)) = 2
    /\ WellFormed(CouponsOf(local["t1"].coupons_data)[1])
    /\ ~WellFormed(CouponsOf(local["t1"].coupons_data)[2])
    /\ local["t1"].result.kind = "apology"
    /\ ret.call = "_analyze_coupon_effectiveness"
    /\ Raised(ret.result)

\* the sum of quantity, and of quantity * unit_price, over the lines with this id
RECURSIVE ClaimedQuantity(_, _)
ClaimedQuantity(lines, id) ==
    IF lines = <<>> THEN 0
    ELSE (IF Get(Head(lines), "ws_item_id", None) = id
          THEN Get(Head(lines), "ws_quantity", 0) ELSE 0)
         + ClaimedQuantity(Tail(lines), id)

RECURSIVE ClaimedRevenue(_, _)
ClaimedRevenue(lines, id) ==
    IF lines = <<>> THEN 0
    ELSE (IF Get(Head(lines), "ws_item_id", None) = id
          THEN Get(Head(lines), "ws_quantity", 0) * Get(Head(lines), "ws_unit_price", 0)
          ELSE 0)
         + ClaimedRevenue(Tail(lines), id)

\* C6: after the sales aggregation every product id on some order line, a
\* missing id included, has one summary entry, whose quantity and revenue are
\* the sums of quantity and of quantity * unit_price over exactly the lines
\* with that id; and total_orders is the number of lines
C6_SalesTotals ==
    ret.call = "_analyze_sales_trends"
    => LET lines == OrdersOf(orders_data)
           product_sales == ret.result.product_sales
       IN  /\ ret.result.total_orders = Len(lines)
           /\ DictKeys(product_sales) =
                  {Get(lines[i], "ws_item_id", None) : i \in DOMAIN lines}
           /\ \A i, j \in DOMAIN product_sales :
                  product_sales[i][1] = product_sales[j][1] => i = j
           /\ \A i \in DOMAIN product_sales :
                  /\ product_sales[i][2].quantity =
                         ClaimedQuantity(lines, product_sales[i][1])
                  /\ product_sales[i][2].revenue =
                         ClaimedRevenue(lines, product_sales[i][1])

\* four lines were aggregated: two of p1 into quantity 3 and revenue 9, one
\* without an id under None, one of another product
C6_Witness ==
    /\ ret.call = "_analyze_sales_trends"
    /\ ret.result.total_orders = 4
    /\ Len(ret.result.product_sales) = 3
    /\ DictGet(ret.result.product_sales, "p1", NoSales).quantity = 3
    /\ DictGet(ret.result.product_sales, "p1", NoSales).revenue = 9
    /\ DictGet(ret.result.product_sales, None, NoSales).revenue = 10

\* C7: the Variant A score of a product with non-negative stock, prices and
\* quantity sold is within [0, 100]
C7_ScoreWithin0And100 ==
    (ret.call = "_calculate_investment_score" /\ ~Raised(ret.result.score))
    => /\ RLe(Float(0), ret.result.score.val)
       /\ RLe(ret.result.score.val, Float(100))

\* C8: no division in the investment scorers faults: a zero unit price, a
\* product without sales, zero total revenue all give the fallback value
C8_NoArithmeticFault ==
    /\ ret.call = "_calculate_investment_score"
       => ret.result.score.exc # "ZeroDivisionError"
    /\ ret.call \in {"get_best_investment_recommendations", "_analyze_product_potential"}
       => ret.result.exc # "ZeroDivisionError"

\* min_stock of a product, 20 when it has none
ClaimedMinStock(product) == Get(product, "ws_min_stock", 20)

\* the products the planner tags URGENT, in order
ClaimedUrgent(prods) ==
    SelectSeq(prods, LAMBDA p : Get(p, "ws_stock", 0) <= ClaimedMinStock(p))

\* C9: the reorder_quantity recorded for a product tagged URGENT is never less
\* than that product's min_stock
C9_UrgentAtLeastMinStock ==
    ret.call = "_check_reorder_levels"
    => LET urgent == ret.result.urgent_reorder
           claimed == ClaimedUrgent(_get_products(inventory_data))
       IN  /\ Len(urgent) = Len(claimed)
           /\ \A i \in DOMAIN urgent :
                 /\ urgent[i].urgency = "URGENT"
                 /\ urgent[i].reorder_quantity >= ClaimedMinStock(claimed[i])

\* two products were tagged URGENT: one whose computed quantity, 4, was
\* raised to its min_stock 20 and one whose computed quantity, 24, exceeds it
C9_Witness ==
    /\ ret.call = "_check_reorder_levels"
    /\ Len(ret.result.urgent_reorder) = 2
    /\ ret.result.urgent_reorder[1].current_stock = 20
    /\ ret.result.urgent_reorder[1].reorder_quantity = 20
    /\ DictGet(ret.result.reorder_suggestions, "p1", [quantity |-> 0]).quantity = 24
    /\ ret.result.urgent_reorder[2].current_stock = 0
    /\ ret.result.urgent_reorder[2].reorder_quantity = 24

\* C10: process_query never lets an exception out: a call in which a fetch
\* step or a compute step raised returns the fixed apology, which says
\* nothing of the exception; every other call returns its branch's report
C10_ApologyOnAnyFailure ==
    \A t \in Threads :
        pc[t] = "done"
        => IF local[t].raised # "none"
           THEN /\ local[t].result = Report("apology", ApologyText)
                /\ <<"Error processing query", local[t].raised>> \in log
           ELSE local[t].result.kind \in {"reorder", "investment"} \cup GenericKinds

\* one call returned the apology after a fetch raised, another after the
\* investment analysis raised
C10_Witness ==
    /\ pc["t1"] = "done"
    /\ local["t1"].raised = "ConnectionError"
    /\ local["t1"].result = Report("apology", ApologyText)
    /\ pc["t2"] = "done"
    /\ local["t2"].raised = "ZeroDivisionError"
    /\ local["t2"].result = Report("apology", ApologyText)

\* C11: handling one query at a time, a call has stored all three collections
\* itself before its analysis starts, and every collection its analysis reads
\* is one that its own fetch_data stored, also after a call whose fetch failed
C11_FreshFetchEveryCall ==
    \A t \in Threads :
        /\ pc[t] = "analyse"
           => \A f \in Fields : stored_by[f] = CallOf(t)
        /\ (pc[t] \in {"analyse", "done"} /\ local[t].raised = "none")
           => \A f \in DOMAIN local[t].read_from : local[t].read_from[f] = CallOf(t)
        /\ (pc[t] = "done" /\ local[t].raised = "none")
           => DOMAIN local[t].read_from = Range(ReadOrder(local[t].branch))

\* a call whose fetch failed was followed by a call that has read what it
\* fetched itself, the endpoints answering something else by now
C11_Witness ==
    /\ pc["t1"] = "done"
    /\ local["t1"].raised = "ConnectionError"
    /\ pc["t2"] = "analyse"
    /\ local["t2"].todo = <<>>
    /\ local["t2"].read_from["inventory_data"] = <<"t2", 1>>
    /\ local["t2"].read_from["orders_data"] = <<"t2", 1>>
    /\ local["t2"].inventory_data # upstream.inventory

\* C12, as claimed: some query's report is the ranking of Variant A, made by
\* get_best_investment_recommendations, and some query's report is the
\* analysis of Variant B, made by _analyze_product_potential
C12_BothVariantsReachable ==
    LET prods == _get_products(upstream.inventory)
        report(q) == Analyse(q, upstream.inventory, upstream.orders, upstream.coupons,
                             prods, today)
    IN  /\ \E q \in Queries :
              /\ ~Raised(report(q))
              /\ report(q).val.kind = "recommendations"
        /\ \E q \in Queries :
              /\ ~Raised(report(q))
              /\ report(q).val.kind = "investment"
              /\ report(q).val.body =
                     _analyze_product_potential(prods, upstream.orders).val

\* C12, amended: only Variant B is reachable from the query interface: the
\* report of every query of the investment branch is the analysis that
\* _analyze_product_potential makes of what the call read, and the report of
\* every other query is the reorder analysis or a generic reply, never the
\* ranking of get_best_investment_recommendations
C12_OnlyVariantBReachable ==
    (pc["t1"] = "done" /\ local["t1"].raised = "none")
    => IF local["t1"].branch = "investment"
       THEN /\ local["t1"].result.kind = "investment"
            /\ local["t1"].result.body =
                   _analyze_product_potential(local["t1"].products,
                                              local["t1"].orders_data).val
       ELSE local["t1"].result.kind \in {"reorder"} \cup GenericKinds

\* a query of the investment branch was answered with Variant B's analysis
\* of two products while Variant A, called directly, ranked the same two
C12_Witness ==
    /\ pc["t1"] = "done"
    /\ local["t1"].branch = "investment"
    /\ local["t1"].result.kind = "investment"
    /\ Len(local["t1"].result.body) = 2
    /\ ret.call = "get_best_investment_recommendations"
    /\ ~Raised(ret.result)
    /\ Len(ret.result.val) = 2

\* the place of the first order line with this product id
FirstSeen(lines, id) ==
    CHOOSE i \in DOMAIN lines :
        /\ Get(lines[i], "ws_item_id", None) = id
        /\ \A j \in 1..(i - 1) : Get(lines[j], "ws_item_id", None) # id

\* summary a ranks before summary b: it sold more, or as much and its
\* product id was met earlier in the order lines
RanksBefore(lines, a, b) ==
    \/ a[2].quantity > b[2].quantity
    \/ /\ a[2].quantity = b[2].quantity
       /\ FirstSeen(lines, a[1]) < FirstSeen(lines, b[1])

\* C13: popular_products is the first 3 (or all, when fewer) of the product
\* summaries ordered by quantity sold descending, equal quantities in the
\* order in which their product ids were first met; empty for no order lines
C13_PopularProducts ==
    ret.call = "_analyze_sales_trends"
    => LET lines == OrdersOf(orders_data)
           product_sales == ret.result.product_sales
           popular == ret.result.popular_products
       IN  /\ Len(popular) = Min(3, Len(product_sales))
           /\ lines = <<>> => popular = <<>>
           /\ \A k \in DOMAIN popular :
                 \E i \in DOMAIN product_sales :
                     /\ popular[k] = product_sales[i]
                     /\ Cardinality({j \in DOMAIN product_sales :
                                        RanksBefore(lines, product_sales[j],
                                                    product_sales[i])}) = k - 1

\* of four products, two sold 2 and two sold 1: the three listed are the two
\* that sold 2, in the order met, then the first met of those that sold 1
C13_Witness ==
    /\ ret.call = "_analyze_sales_trends"
    /\ Len(ret.result.product_sales) = 4
    /\ Len(ret.result.popular_products) = 3
    /\ ret.result.popular_products[1][1] = "p2"
    /\ ret.result.popular_products[2][1] = None
    /\ ret.result.popular_products[2][2].quantity = 2
    /\ ret.result.popular_products[3][1] = "p1"
    /\ ret.result.popular_products[3][2].quantity = 1
    /\ ret.result.product_sales[4][2].quantity = 1

\* int(quantity_sold / 30 * 7 + 0.5 * min_stock - current_stock) of a product,
\* in thirtieths: the quantity computed before the tier's floor
ClaimedComputed(product, lines) ==
    LET n == 7 * ClaimedQuantity(lines, Get(product, "ws_item_id", None))
             + 15 * ClaimedMinStock(product) - 30 * Get(product, "ws_stock", 0)
    IN  IF n >= 0 THEN n \div 30 ELSE -((-n) \div 30)

\* the entries of both urgency lists
Tiered(reorder_analysis) ==
    Range(reorder_analysis.urgent_reorder) \cup Range(reorder_analysis.approaching_reorder)

\* C14, as claimed: every URGENT or SOON product whose recorded
\* reorder_quantity is positive has an entry in reorder_suggestions, whose
\* quantity is the recorded reorder_quantity
C14_SuggestionForRecordedQuantity ==
    ret.call = "_check_reorder_levels"
    => \A e \in Tiered(ret.result) :
          e.reorder_quantity > 0
          => /\ HasKey(ret.result.reorder_suggestions, e.id)
             /\ DictGet(ret.result.reorder_suggestions, e.id,
                        [quantity |-> 0]).quantity = e.reorder_quantity

\* C14, amended: the product ids in reorder_suggestions are those of the
\* products whose quantity computed before the tier's floor is positive,
\* whatever their tier, and an entry's quantity is that computed quantity of
\* the last such product with the id
C14_SuggestionForComputedQuantity ==
    ret.call = "_check_reorder_levels"
    => LET prods == _get_products(inventory_data)
           lines == OrdersOf(orders_data)
           suggestions == ret.result.reorder_suggestions
           positive == {i \in DOMAIN prods : ClaimedComputed(prods[i], lines) > 0}
       IN  /\ DictKeys(suggestions) = {Get(prods[i], "ws_item_id", None) : i \in positive}
           /\ \A i \in positive :
                 (\A j \in positive :
                     j > i => Get(prods[j], "ws_item_id", None)
                              # Get(prods[i], "ws_item_id", None))
                 => DictGet(suggestions, Get(prods[i], "ws_item_id", None),
                            [quantity |-> 0]).quantity
                    = ClaimedComputed(prods[i], lines)

\* the one product is URGENT; its computed quantity, 4, was raised to its
\* min_stock 20 in the urgency list and its suggestion has quantity 4
C14_Witness ==
    /\ ret.call = "_check_reorder_levels"
    /\ Len(ret.result.urgent_reorder) = 1
    /\ ret.result.urgent_reorder[1].id = "p1"
    /\ ret.result.urgent_reorder[1].reorder_quantity = 20
    /\ ret.result.approaching_reorder = <<>>
    /\ DictGet(ret.result.reorder_suggestions, "p1", [quantity |-> 0]).quantity = 4
    /\ Len(_get_products(inventory_data)) = 1

\* round(quantity_sold / 30 * 7 + 0.5 * min_stock - current_stock) of a
\* product, in thirtieths: to the nearest integer, a half to the even one
ClaimedRounded(product, lines) ==
    LET n == 7 * ClaimedQuantity(lines, Get(product, "ws_item_id", None))
             + 15 * ClaimedMinStock(product) - 30 * Get(product, "ws_stock", 0)
        f == n \div 30
        r == n % 30
    IN  IF r < 15 THEN f
        ELSE IF r > 15 THEN f + 1
        ELSE IF f % 2 = 0 THEN f ELSE f + 1

\* the products the planner tags SOON, in order
ClaimedSoon(prods) ==
    SelectSeq(prods, LAMBDA p :
        /\ Get(p, "ws_stock", 0) > ClaimedMinStock(p)
        /\ 2 * Get(p, "ws_stock", 0) <= 3 * ClaimedMinStock(p))

\* the sales figures recorded for a product are quantity_sold / 30 a day and
\* current_stock / avg_daily_sales days, infinitely many without sales
ClaimedFigures(e, product, lines) ==
    LET sold == ClaimedQuantity(lines, Get(product, "ws_item_id", None))
    IN  /\ e.avg_daily_sales = Frac(sold, 30)
        /\ e.days_remaining = (IF sold = 0 THEN Infinity
                               ELSE Frac(30 * Get(product, "ws_stock", 0), sold))

\* C15, as claimed: URGENT reports max(q, min_stock) and SOON max(q, 0), q
\* being quantity_sold / 30 * 7 + 0.5 * min_stock - current_stock rounded
\* to the nearest integer
C15_QuantityRounded ==
    ret.call = "_check_reorder_levels"
    => LET lines == OrdersOf(orders_data)
           urgent == ClaimedUrgent(_get_products(inventory_data))
           soon == ClaimedSoon(_get_products(inventory_data))
       IN  /\ \A i \in DOMAIN urgent :
                 ret.result.urgent_reorder[i].reorder_quantity
                 = Max(ClaimedRounded(urgent[i], lines), ClaimedMinStock(urgent[i]))
           /\ \A i \in DOMAIN soon :
                 ret.result.approaching_reorder[i].reorder_quantity
                 = Max(ClaimedRounded(soon[i], lines), 0)

\* C15, amended: URGENT reports max(q, min_stock) and SOON max(q, 0), never
\* negative, q being quantity_sold / 30 * 7 + 0.5 * min_stock - current_stock
\* truncated toward zero; avg_daily_sales is quantity_sold / 30 and
\* days_remaining is current_stock / avg_daily_sales
C15_QuantityTruncated ==
    ret.call = "_check_reorder_levels"
    => LET lines == OrdersOf(orders_data)
           urgent == ClaimedUrgent(_get_products(inventory_data))
           soon == ClaimedSoon(_get_products(inventory_data))
       IN  /\ Len(ret.result.urgent_reorder) = Len(urgent)
           /\ Len(ret.result.approaching_reorder) = Len(soon)
           /\ \A i \in DOMAIN urgent :
                 /\ ret.result.urgent_reorder[i].reorder_quantity
                    = Max(ClaimedComputed(urgent[i], lines), ClaimedMinStock(urgent[i]))
                 /\ ClaimedFigures(ret.result.urgent_reorder[i], urgent[i], lines)
           /\ \A i \in DOMAIN soon :
                 /\ ret.result.approaching_reorder[i].reorder_quantity
                    = Max(ClaimedComputed(soon[i], lines), 0)
                 /\ ret.result.approaching_reorder[i].reorder_quantity >= 0
                 /\ ClaimedFigures(ret.result.approaching_reorder[i], soon[i], lines)

\* the product with stock 5 and min_stock 20 that sold 60 is URGENT with 2 a
\* day, 2.5 days and quantity max(19, 20) = 20; the one after it, with stock
\* 21, is SOON with quantity 3
C15_Witness ==
    /\ ret.call = "_check_reorder_levels"
    /\ ClaimedQuantity(OrdersOf(orders_data), "p1") = 60
    /\ Len(ret.result.urgent_reorder) = 1
    /\ ret.result.urgent_reorder[1].id = "p1"
    /\ ret.result.urgent_reorder[1].current_stock = 5
    /\ ret.result.urgent_reorder[1].min_stock = 20
    /\ ret.result.urgent_reorder[1].avg_daily_sales = Float(2)
    /\ ret.result.urgent_reorder[1].days_remaining = Frac(5, 2)
    /\ ret.result.urgent_reorder[1].reorder_quantity = 20
    /\ DictGet(ret.result.reorder_suggestions, "p1", [quantity |-> 0]).quantity = 3
    /\ Len(ret.result.approaching_reorder) = 1
    /\ ret.result.approaching_reorder[1].current_stock = 21
    /\ ret.result.approaching_reorder[1].reorder_quantity = 3

\* the entry recorded for a product: its id, stock, min_stock and tier
ClaimedEntry(e, product, urgency) ==
    /\ e.id = Get(product, "ws_item_id", None)
    /\ e.current_stock = Get(product, "ws_stock", 0)
    /\ e.min_stock = ClaimedMinStock(product)
    /\ e.urgency = urgency

\* C16: urgent_reorder holds, once each and in order, the products with
\* current_stock <= min_stock, and approaching_reorder those with min_stock <
\* current_stock <= 1.5 * min_stock, min_stock being 20 when absent; every
\* other product is in neither list and no product is in both
C16_UrgencyTiers ==
    ret.call = "_check_reorder_levels"
    => LET prods == _get_products(inventory_data)
           urgent == ClaimedUrgent(prods)
           soon == ClaimedSoon(prods)
       IN  /\ Len(ret.result.urgent_reorder) = Len(urgent)
           /\ \A i \in DOMAIN urgent :
                 ClaimedEntry(ret.result.urgent_reorder[i], urgent[i], "URGENT")
           /\ Len(ret.result.approaching_reorder) = Len(soon)
           /\ \A i \in DOMAIN soon :
                 ClaimedEntry(ret.result.approaching_reorder[i], soon[i], "SOON")
           /\ \A i \in DOMAIN ret.result.urgent_reorder :
                 \A j \in DOMAIN ret.result.approaching_reorder :
                     ret.result.urgent_reorder[i] # ret.result.approaching_reorder[j]
           /\ Len(ret.result.urgent_reorder) + Len(ret.result.approaching_reorder)
              <= Len(prods)

\* a product at its min_stock 20 is URGENT and one without a min_stock, with
\* stock 30 = 1.5 * 20, is SOON
C16_Witness ==
    /\ ret.call = "_check_reorder_levels"
    /\ Len(_get_products(inventory_data)) = 2
    /\ "ws_min_stock" \notin DOMAIN _get_products(inventory_data)[2]
    /\ Len(ret.result.urgent_reorder) = 1
    /\ ret.result.urgent_reorder[1].current_stock = 20
    /\ ret.result.urgent_reorder[1].min_stock = 20
    /\ Len(ret.result.approaching_reorder) = 1
    /\ ret.result.approaching_reorder[1].current_stock = 30
    /\ ret.result.approaching_reorder[1].min_stock = 20

\* the words that the unreachable branches of the generic responder look for
ClaimedCapturedWords ==
    {Word.investment, Word.stock, Word.inventory, Word.reorder, Word.recommend}

\* C17: through process_query, a query containing 'investment', 'stock',
\* 'inventory', 'reorder' or 'recommend' never reaches the generic responder,
\* so the responder's replies are those of its coupon sub-branches (the
\* promotions only for 'suggest'), its sales summary and its greeting, never
\* its investment pick or its low-stock alert
C17_ResponderBranchesUnreachable ==
    \A t \in Threads :
        /\ (pc[t] \in {"analyse", "done"} /\ local[t].raised = "none")
           => (local[t].branch = "generic"
               => \A w \in ClaimedCapturedWords : ~Contains(Lower(local[t].query), w))
        /\ (pc[t] = "done" /\ local[t].raised = "none" /\ local[t].branch = "generic")
           => /\ local[t].result.kind \in
                    {"expired_coupons", "no_expired_coupons", "active_coupons",
                     "no_active_coupons", "promotions", "sales_summary", "greeting"}
              /\ local[t].result.kind = "promotions"
                 => Contains(Lower(local[t].query), Word.suggest)

\* a coupon query with 'recommend' was answered by the investment analysis,
\* where the data has overstock to promote and low stock to alert about
C17_Witness ==
    /\ pc["t1"] = "done"
    /\ local["t1"].query = Join(<<Word.recommend, Word.coupon>>)
    /\ local["t1"].result.kind = "investment"
    /\ _analyze_inventory_health(inventory_data).overstock # <<>>
    /\ _analyze_inventory_health(inventory_data).low_stock # <<>>

============================================================================
